---- MODULE Spec2Model ----
(***************************************************************************)
(* girderfs: a read-only FUSE filesystem over a Girder folder.             *)
(*                                                                         *)
(* The model follows src/girderfs/core.py.  The filesystem object is       *)
(* shared by the FUSE worker threads (src/girderfs/__main__.py mounts it   *)
(* without nothreads), so every callback is a thread that runs the         *)
(* handler's code; a thread takes one step per access to shared state (the *)
(* diskcache store, the handle counter, the remote server, the OS          *)
(* descriptor table).  The Girder server is the environment: it answers    *)
(* listing and download requests and may change between any two steps.     *)
(*                                                                         *)
(* Paths are pathlib part sequences: "/d/g" is <<"/", "d", "g">>.          *)
(* Timestamps "2020-01-DDT00:00:00+00:00" are written as the day DD; a     *)
(* missing `updated` key is Absent, a string that is no timestamp is       *)
(* Malformed.  File content is a sequence of bytes.                        *)
(* self.cache is one diskcache store holding listings (key: container id)  *)
(* and blobs (key: id#timestamp); the two key spaces are disjoint and are  *)
(* kept in listingCache and blobCache.                                     *)
(***************************************************************************)
EXTENDS Integers, Sequences, FiniteSets, Bags, TLC

\* Bounds of the exploration.
MaxCalls == 3
MaxChanges == 1
\* open and release of RESTGirderFS touch nothing but the counter: sequences
\* of them alone, one call after the other, are explored this far.
MaxHandleCalls == 4

\* Worker threads of the FUSE loop that may run callbacks at the same time.
Threads == {1, 2}

VARIABLES
    mode,          \* "remote" (RESTGirderFS) or "direct" (LocalGirderFS)
    mounted,       \* FALSE once destroy has run
    fd,            \* self.fd
    listingCache,  \* self.cache, the entries keyed by a container id
    blobCache,     \* self.cache, the entries keyed by id#timestamp
    osFds,         \* descriptors of this process opened by os.open
    ver,           \* remote: how many times file X2 was updated
    renamed,       \* remote: whether file X2 was renamed from "f" to "x"
    th,            \* the callback each worker thread is running
    reply,         \* the callback that has just returned, with its result
    live,          \* bag of handles returned by open and not yet released
    staleBlob,     \* files updated remotely while a blob of theirs was cached
    calls,         \* callbacks started so far
    down,          \* remote: the server is unreachable or answers with errors
    outages,       \* remote: how many outages have begun
    tmpFiles,      \* temporary files of this process that exist on disk
    fetched,       \* per container, the listings the server has answered with
    failedC,       \* containers of which a listing fetch has failed
    issued,        \* handles returned by RESTGirderFS.open, in order
    releases,      \* calls of RESTGirderFS.release so far
    raced          \* two calls of RESTGirderFS.open/release have overlapped

\* The server's availability and the history kept for the properties.
env == <<down, outages>>
hist == <<fetched, failedC, issued, releases, raced>>

vars == <<mode, mounted, fd, listingCache, blobCache, osFds, ver, renamed,
          th, reply, live, staleBlob, calls, down, outages, tmpFiles,
          fetched, failedC, issued, releases, raced>>

Min(a, b) == IF a < b THEN a ELSE b

----------------------------------------------------------------------------
(* The remote Girder server.                                               *)

Root == "R"
Absent == 0
Malformed == -1
FileIds == {"X1", "X2", "X3"}
EmptyListing == [folders |-> <<>>, files |-> <<>>]
ErrorBody == <<400>>

BaseContent(f) ==
    CASE f = "X1" -> <<11>>
      [] f = "X2" -> <<21, 22, 23>>
      [] f = "X3" -> <<>>

Content(f, v) == IF v = 0 THEN BaseContent(f) ELSE <<100 + v>> \o BaseContent(f)

\* The version of each file: only X2 is ever updated.
Version(f) == IF f = "X2" THEN ver ELSE 0

FileName(f) ==
    CASE f = "X1" -> "dup"
      [] f = "X2" -> IF renamed THEN "x" ELSE "f"
      [] f = "X3" -> "g"

\* The `updated` of file X3 is not a timestamp.
FileEntry(f) ==
    [id |-> f, name |-> FileName(f), created |-> 1,
     updated |-> IF Version(f) = 0 THEN (IF f = "X3" THEN Malformed ELSE Absent)
                 ELSE 1 + Version(f),
     size |-> Len(Content(f, Version(f)))]

FolderEntry(i, n) ==
    [id |-> i, name |-> n, created |-> 1, updated |-> Absent, size |-> 0]

\* F1 is a folder, F2 an item holding several files (listed as a folder, and
\* answered only by item/<id>/listing).
ContainerKind(c) ==
    CASE c \in {"R", "F1"} -> "folder"
      [] c = "F2" -> "item"
      [] OTHER -> "none"

RemoteListing(c) ==
    CASE c = "R" -> [folders |-> <<FolderEntry("F1", "d"), FolderEntry("F2", "dup")>>,
                     files |-> <<FileEntry("X1"), FileEntry("X2")>>]
      [] c = "F1" -> [folders |-> <<>>, files |-> <<FileEntry("X3")>>]
      [] OTHER -> EmptyListing

\* GET file/<id>/download: the bytes of the file, or the body of the error
\* response (requests.get does not raise on an error status).
Download(i) == IF i \in FileIds THEN Content(i, Version(i)) ELSE ErrorBody

\* Changes of the server so far: renames, updates, and outages.
Changes == (IF renamed THEN 1 ELSE 0) + ver + outages

----------------------------------------------------------------------------
(* Pure functions of core.py.                                              *)

S_IFDIR == 16384
S_IFREG == 32768

NoObj == [id |-> "", name |-> "", created |-> 0, updated |-> 0, size |-> 0]
NoAttr == [st_mode |-> 0, st_nlink |-> 0, st_ctime |-> 0, st_mtime |-> 0,
           st_blocks |-> 0, st_size |-> 0]

\* _lstrip_path: drop the leading "/" part.
LStripPath(path) == Tail(path)

\* _convert_time: ISO timestamp of day d of January 2020 (UTC) to epoch seconds.
ConvertTime(d) == 1577836800 + 86400 * (d - 1)

\* next((item for item in items if item["name"] == n), None)
FirstNamed(items, n) ==
    LET I == {i \in 1..Len(items) : items[i].name = n}
    IN  IF I = {} THEN NoObj ELSE items[CHOOSE i \in I : \A j \in I : i <= j]

\* A bug that looks files up before folders.
GetObjectByPathFilesFirst(raw_listing, parts) ==
    LET folder == FirstNamed(raw_listing.folders, parts[1])
        file == FirstNamed(raw_listing.files, parts[1])
    IN  IF file # NoObj
        THEN [kind |-> "return", obj |-> file, typ |-> "file"]
        ELSE IF folder # NoObj
        THEN [kind |-> IF Len(parts) = 1 THEN "return" ELSE "recurse",
              obj |-> folder, typ |-> "folder"]
        ELSE [kind |-> "raise", obj |-> NoObj, typ |-> "none"]

\* A bug that returns the (missing) file instead of raising ENOENT.
GetObjectByPathNoRaise(raw_listing, parts) ==
    LET folder == FirstNamed(raw_listing.folders, parts[1])
        file == FirstNamed(raw_listing.files, parts[1])
    IN  IF folder # NoObj
        THEN [kind |-> IF Len(parts) = 1 THEN "return" ELSE "recurse",
              obj |-> folder, typ |-> "folder"]
        ELSE [kind |-> "return", obj |-> file, typ |-> "file"]

\* One level of _get_object_by_path on the listing of the current container:
\* return (obj, type), recurse into obj with the remaining parts, or raise
\* FuseOSError(ENOENT).
GetObjectByPath(raw_listing, parts) ==
    LET folder == FirstNamed(raw_listing.folders, parts[1])
        file == FirstNamed(raw_listing.files, parts[1])
    IN  IF folder # NoObj
        THEN [kind |-> IF Len(parts) = 1 THEN "return" ELSE "recurse",
              obj |-> folder, typ |-> "folder"]
        ELSE IF file # NoObj
        THEN [kind |-> "return", obj |-> file, typ |-> "file"]
        ELSE [kind |-> "raise", obj |-> NoObj, typ |-> "none"]

\* tparse(strtime) raises ValueError on a string that is no timestamp.
Parses(strtime) == strtime # Malformed

\* getattr: both _convert_time calls return (a missing `updated` is the
\* KeyError the handler catches).
TimesParse(obj) ==
    Parses(obj.created) /\ (obj.updated # Absent => Parses(obj.updated))

\* getattr("/")
RootAttr == [NoAttr EXCEPT !.st_mode = S_IFDIR + 493, !.st_nlink = 2]

\* getattr of a resolved object (st_atime, the wall clock, is left out).
GetAttr(obj, obj_type) ==
    [st_mode |-> IF obj_type = "folder" THEN S_IFDIR + 493 ELSE S_IFREG + 420,
     st_nlink |-> IF obj_type = "folder" THEN 2 ELSE 1,
     st_ctime |-> ConvertTime(obj.created),
     st_mtime |-> IF obj.updated = Absent THEN ConvertTime(obj.created)
                  ELSE ConvertTime(obj.updated),
     st_blocks |-> 1,
     st_size |-> obj.size]

ItemNames(items) == [i \in 1..Len(items) |-> items[i].name]

\* A bug that lists the files only.
DirentsFilesOnly(raw_listing) == <<".", "..">> \o ItemNames(raw_listing.files)

\* readdir: '.', '..', then the names under every key of the listing.
Dirents(raw_listing) ==
    <<".", "..">> \o ItemNames(raw_listing.folders) \o ItemNames(raw_listing.files)

\* A bug that forgets the seek.
ReadAtNoSeek(content, offset, size) == SubSeq(content, 1, Min(size, Len(content)))

\* fp.seek(offset); fp.read(size)  /  os.lseek(fh, offset, 0); os.read(fh, size)
ReadAt(content, offset, size) ==
    SubSeq(content, offset + 1, Min(offset + size, Len(content)))

\* '#'.join((obj['_id'], obj.get('updated', obj['created'])))
CacheKey(obj) ==
    <<obj.id, IF obj.updated = Absent THEN obj.created ELSE obj.updated>>

\* os.open returns the lowest descriptor number that is free.
LowestFree == CHOOSE n \in 1..(Cardinality(osFds) + 1) :
                  /\ \A e \in osFds : e.fd # n
                  /\ \A m \in 1..(n - 1) : \E e \in osFds : e.fd = m

----------------------------------------------------------------------------
(* Worker threads.  A thread record holds the arguments of the callback    *)
(* it runs, the handler's local variables, the call's result and the       *)
(* bookkeeping the properties refer to.  When the callback returns, its    *)
(* record is handed over as `reply` and the thread is Idle again; reply    *)
(* lasts until the next step.                                              *)

NoPrev == [some |-> FALSE, obj |-> NoObj, typ |-> "none"]

Idle ==
    [pc |-> "idle", op |-> "none", path |-> <<>>, size |-> 0, offset |-> 0,
     fh |-> 0,
     \* locals of the handler
     rest |-> <<>>, cur |-> "", got |-> EmptyListing, tmp |-> <<>>, reg |-> 0,
     obj |-> NoObj, typ |-> "none", resolved |-> FALSE,
     \* the result: status is "ok" or the error raised
     status |-> "none", attr |-> NoAttr, names |-> <<>>, bytes |-> <<>>,
     handle |-> 0,
     \* bookkeeping
     hit |-> FALSE,      \* the read was served from the blob cache
     fetchFailed |-> FALSE,     \* a listing fetch of the call has failed
     downloadFailed |-> FALSE,  \* the download of the call has failed
     fresh |-> FALSE,    \* the remote has not changed since the call began
     dirty |-> FALSE,    \* another thread replaced a cached listing since the call began
     prev |-> NoPrev]    \* what the listings cached when the call began resolve the path to

\* The arguments the kernel passes.
GetattrPaths ==
    {<<"/">>, <<"/", "dup">>, <<"/", "f">>, <<"/", "f", "x">>, <<"/", "d", "x">>,
     <<"/", "d", "g">>}
ReaddirPaths == {<<"/">>, <<"/", "d">>, <<"/", "dup">>, <<"/", "f">>, <<"/", "x", "g">>}
ReadPaths == {<<"/", "f">>, <<"/", "d", "g">>, <<"/", "f", "x">>, <<"/", "x", "g">>}
OpenPaths == {<<"/", "f">>, <<"/", "dup">>, <<"/", "d", "x">>}
ReadArgs == {[size |-> 4, offset |-> 0], [size |-> 2, offset |-> 1],
             [size |-> 2, offset |-> 3]}
\* Every range is read of "/f"; the other paths are read from the start.
ReadCalls ==
    {[path |-> <<"/", "f">>, size |-> a.size, offset |-> a.offset] : a \in ReadArgs}
        \cup {[path |-> p, size |-> 4, offset |-> 0] : p \in ReadPaths}

\* The callbacks explored running at the same time as another one; every
\* other callback runs while no other is in flight.
ParCalls ==
    {[op |-> "read", path |-> <<"/", "f">>, size |-> 4, offset |-> 0],
     [op |-> "open", path |-> <<>>, size |-> 0, offset |-> 0],
     [op |-> "release", path |-> <<>>, size |-> 0, offset |-> 0]}

\* open and release of RESTGirderFS share self.fd with each other and nothing
\* with the other callbacks, which share the cache.
SharesState(op1, op2) ==
    (op1 \in {"open", "release"}) <=> (op2 \in {"open", "release"})

Sig(r) == [op |-> r.op, path |-> r.path, size |-> r.size, offset |-> r.offset]

\* The workers that are running one of the callbacks ops.
InFlight(ops) == {t \in Threads : th[t].pc # "idle" /\ th[t].op \in ops}

\* Nothing but RESTGirderFS.open/release has been called so far, and never
\* two of them at the same time.
HandlesOnly ==
    /\ mode = "remote" /\ ~raced
    /\ calls = Len(issued) + releases + Cardinality(InFlight({"open"}))

\* How many callbacks are explored before a callback op.
Budget(op) ==
    IF op \in {"open", "release"} /\ HandlesOnly /\ InFlight({"open", "release"}) = {}
    THEN MaxHandleCalls ELSE MaxCalls

\* A new callback r runs on the first worker that is free.
CanStart(t, r) ==
    /\ mounted
    /\ th[t].pc = "idle"
    /\ \A u \in Threads : u < t => th[u].pc # "idle"
    /\ \A u \in Threads :
           th[u].pc # "idle" => /\ Sig(th[u]) \in ParCalls
                                /\ Sig(r) \in ParCalls
                                /\ SharesState(r.op, th[u].op)

\* _get_object_by_path over the listings that are cached: what a resolution
\* returns when every _get_listing on its way is answered by the cache.
RECURSIVE CachedWalk(_, _)
CachedWalk(obj_id, parts) ==
    IF obj_id \notin DOMAIN listingCache
    THEN [kind |-> "miss", obj |-> NoObj, typ |-> "none"]
    ELSE LET s == GetObjectByPath(listingCache[obj_id], parts)
         IN  IF s.kind = "recurse" THEN CachedWalk(s.obj.id, Tail(parts)) ELSE s

\* A callback begins.
Begin(op, path) ==
    LET w == IF Len(path) > 1 THEN CachedWalk(Root, LStripPath(path))
             ELSE [kind |-> "miss", obj |-> NoObj, typ |-> "none"]
    IN  [Idle EXCEPT !.op = op, !.path = path, !.pc = "run", !.fresh = TRUE,
                     !.prev = IF w.kind = "return"
                              THEN [some |-> TRUE, obj |-> w.obj, typ |-> w.typ]
                              ELSE NoPrev]

\* The callback returns ("ok") or raises: FuseOSError(ENOENT) is "ENOENT", any
\* other exception that leaves the handler is "EFAULT".  The locals are dropped.
Finish(r, status) ==
    [r EXCEPT !.pc = "idle", !.status = status, !.rest = <<>>, !.cur = "",
              !.got = EmptyListing, !.tmp = <<>>, !.reg = 0]

\* self._get_object_by_path(self.folder_id, _lstrip_path(path))
Walk(r) == [r EXCEPT !.pc = "listing", !.cur = Root, !.rest = LStripPath(r.path)]

\* The handler's code after _get_object_by_path has returned (obj, obj_type).
Resolved(r, obj, obj_type) ==
    LET q == [r EXCEPT !.obj = obj, !.typ = obj_type, !.resolved = TRUE]
    IN  CASE r.op = "getattr" ->
                 IF TimesParse(obj)
                 THEN [Finish(q, "ok") EXCEPT !.attr = GetAttr(obj, obj_type)]
                 ELSE Finish(q, "EFAULT")
          [] r.op = "readdir" ->
                 [q EXCEPT !.pc = "listing", !.cur = obj.id, !.rest = <<>>]
          [] r.op = "read" ->
                 [q EXCEPT !.pc = IF mode = "remote" THEN "blobget" ELSE "localread",
                           !.rest = <<>>, !.cur = ""]
          [] r.op = "open" ->
                 [q EXCEPT !.pc = "localopen", !.rest = <<>>, !.cur = ""]

\* The handler's code after _get_listing(r.cur) has returned raw_listing:
\* the next level of _get_object_by_path, or the end of readdir.
WithListing(r, raw_listing) ==
    IF r.rest = <<>>
    THEN [Finish(r, "ok") EXCEPT !.names = Dirents(raw_listing)]
    ELSE LET s == GetObjectByPath(raw_listing, r.rest)
         IN  CASE s.kind = "recurse" ->
                      [r EXCEPT !.cur = s.obj.id, !.rest = Tail(r.rest),
                                !.pc = "listing"]
               [] s.kind = "return" -> Resolved(r, s.obj, s.typ)
               [] s.kind = "raise" -> Finish(r, "ENOENT")

\* Thread t moves on to r, or returns.
Step(t, r) ==
    IF r.pc = "idle"
    THEN th' = [th EXCEPT ![t] = Idle] /\ reply' = r
    ELSE th' = [th EXCEPT ![t] = r] /\ reply' = Idle

----------------------------------------------------------------------------
(* Callbacks of GirderFS.                                                  *)

Getattr(t, path) ==
    /\ calls < Budget("getattr")
    /\ CanStart(t, Begin("getattr", path))
    /\ LET r == Begin("getattr", path)
       IN  Step(t, IF path = <<"/">>
                   THEN [Finish(r, "ok") EXCEPT !.attr = RootAttr]
                   ELSE Walk(r))
    /\ calls' = calls + 1
    /\ UNCHANGED <<env, hist, tmpFiles, mode, mounted, fd, listingCache, blobCache, osFds, ver,
                   renamed, live, staleBlob>>

Readdir(t, path) ==
    /\ calls < Budget("readdir")
    /\ CanStart(t, Begin("readdir", path))
    /\ LET r == Begin("readdir", path)
       IN  Step(t, IF path = <<"/">>
                   THEN [r EXCEPT !.pc = "listing", !.cur = Root]
                   ELSE Walk(r))
    /\ calls' = calls + 1
    /\ UNCHANGED <<env, hist, tmpFiles, mode, mounted, fd, listingCache, blobCache, osFds, ver,
                   renamed, live, staleBlob>>

\* RESTGirderFS.read and LocalGirderFS.read both begin with the resolution.
Read(t, path, size, offset) ==
    LET r == [Begin("read", path) EXCEPT !.size = size, !.offset = offset]
    IN  /\ calls < Budget("read")
        /\ CanStart(t, r)
        /\ path # <<"/">>
        /\ Step(t, Walk(r))
        /\ calls' = calls + 1
        /\ UNCHANGED <<env, hist, tmpFiles, mode, mounted, fd, listingCache, blobCache, osFds, ver,
                       renamed, live, staleBlob>>

\* A bug that never finds a listing in the cache.
ListingCachedNever(obj_id) == FALSE

\* try: return self.cache[obj_id]
ListingCached(obj_id) == obj_id \in DOMAIN listingCache

GetListingLookup(t) ==
    /\ th[t].pc = "listing"
    /\ Step(t, IF ListingCached(th[t].cur)
               THEN WithListing(th[t], listingCache[th[t].cur])
               ELSE [th[t] EXCEPT !.pc = "fetch"])
    /\ UNCHANGED <<env, hist, tmpFiles, mode, mounted, fd, listingCache, blobCache, osFds, ver,
                   renamed, live, staleBlob, calls>>

\* The listings the server has answered with for container obj_id.
FetchedOf(obj_id) == IF obj_id \in DOMAIN fetched THEN fetched[obj_id] ELSE <<>>

\* A bug that keeps an empty listing when the fetch fails.
FetchFailureCached(r) == [r EXCEPT !.got = EmptyListing, !.pc = "store"]

\* The fetch has raised: control goes to `finally` with nothing stored.
FetchFailure(r) == [r EXCEPT !.pc = "reget"]

\* except KeyError: girder_cli.get('folder/<id>/listing'), and on HttpError
\* girder_cli.get('item/<id>/listing').  An id that is neither a folder nor
\* an item makes the second call raise too, and so does every call while the
\* server is down; control then goes to `finally`.
GetListingFetch(t) ==
    LET r == th[t]
        fails == down \/ ContainerKind(r.cur) = "none"
    IN  /\ r.pc = "fetch"
        /\ Step(t, IF fails
                   THEN [FetchFailure(r) EXCEPT !.fetchFailed = TRUE]
                   ELSE [r EXCEPT !.got = RemoteListing(r.cur), !.pc = "store"])
        /\ failedC' = IF fails THEN failedC \cup {r.cur} ELSE failedC
        /\ fetched' = IF fails THEN fetched
                      ELSE (r.cur :> Append(FetchedOf(r.cur), RemoteListing(r.cur)))
                               @@ fetched
        /\ UNCHANGED <<env, issued, releases, raced, tmpFiles, mode, mounted, fd, listingCache, blobCache, osFds, ver,
                   renamed, live, staleBlob, calls>>

\* self.cache[obj_id] = <the response>.  Replacing a listing that another
\* thread's call may have read marks those calls dirty.
GetListingStore(t) ==
    LET r == th[t]
        replaced == r.cur \in DOMAIN listingCache /\ listingCache[r.cur] # r.got
    IN  /\ r.pc = "store"
        /\ listingCache' = (r.cur :> r.got) @@ listingCache
        /\ th' = [u \in Threads |->
                    IF u = t THEN [r EXCEPT !.pc = "reget", !.got = EmptyListing]
                    ELSE IF replaced /\ th[u].pc # "idle"
                    THEN [th[u] EXCEPT !.dirty = TRUE]
                    ELSE th[u]]
        /\ reply' = Idle
        /\ UNCHANGED <<env, hist, tmpFiles, mode, mounted, fd, blobCache, osFds, ver, renamed, live,
                       staleBlob, calls>>

\* finally: return self.cache[obj_id]   (KeyError when nothing was stored)
GetListingReturn(t) ==
    /\ th[t].pc = "reget"
    /\ Step(t, IF th[t].cur \in DOMAIN listingCache
               THEN WithListing(th[t], listingCache[th[t].cur])
               ELSE Finish(th[t], "EFAULT"))
    /\ UNCHANGED <<env, hist, tmpFiles, mode, mounted, fd, listingCache, blobCache, osFds, ver,
                   renamed, live, staleBlob, calls>>

----------------------------------------------------------------------------
(* RESTGirderFS.                                                           *)

\* A bug that never finds a blob in the cache.
BlobCachedNever(cacheKey) == FALSE

\* fp = self.cache.get(cacheKey, read=True); if fp:
BlobCached(cacheKey) == cacheKey \in DOMAIN blobCache

RestBlobGet(t) ==
    LET r == th[t]
        cacheKey == CacheKey(r.obj)
    IN  /\ r.pc = "blobget"
        /\ Step(t, IF BlobCached(cacheKey)
                   THEN [Finish(r, "ok") EXCEPT
                            !.bytes = ReadAt(blobCache[cacheKey], r.offset, r.size),
                            !.hit = TRUE]
                   ELSE [r EXCEPT !.pc = "download"])
        /\ UNCHANGED <<env, hist, tmpFiles, mode, mounted, fd, listingCache, blobCache, osFds, ver,
                       renamed, live, staleBlob, calls>>

\* How a download ends while the server is down: requests.get raises
\* ("refused"), the server answers with an error status ("error"), or the
\* connection drops while iter_content streams the body ("dropped").
DownloadFailures == {"refused", "error", "dropped"}

\* requests.get(... file/<id>/download ...) streamed into the temporary file
\* (NamedTemporaryFile(delete=False)).  The status of the response is not
\* looked at: the body of an error response is kept as the content.  An
\* exception raised by iter_content leaves the `with` block, which closes the
\* temporary file and does not delete it.
RestDownload(t) ==
    LET r == th[t]
    IN  /\ r.pc = "download"
        /\ \E how \in IF down THEN DownloadFailures ELSE {"ok"} :
              CASE how = "ok" ->
                       /\ Step(t, [r EXCEPT !.tmp = Download(r.obj.id),
                                            !.pc = "blobset"])
                       /\ tmpFiles' = tmpFiles + 1
                [] how = "error" ->
                       /\ Step(t, [r EXCEPT !.tmp = ErrorBody, !.pc = "blobset",
                                            !.downloadFailed = TRUE])
                       /\ tmpFiles' = tmpFiles + 1
                [] how = "refused" ->
                       /\ Step(t, [Finish(r, "EFAULT") EXCEPT !.downloadFailed = TRUE])
                       /\ tmpFiles' = tmpFiles
                [] how = "dropped" ->
                       /\ Step(t, [Finish(r, "EFAULT") EXCEPT !.downloadFailed = TRUE])
                       /\ tmpFiles' = tmpFiles + 1
        /\ UNCHANGED <<env, hist, mode, mounted, fd, listingCache, blobCache, osFds, ver,
                   renamed, live, staleBlob, calls>>

\* self.cache.set(cacheKey, fp, read=True); os.remove(tmp.name);
\* fp.seek(offset); return fp.read(size)
RestBlobSet(t) ==
    LET r == th[t]
    IN  /\ r.pc = "blobset"
        /\ blobCache' = (CacheKey(r.obj) :> r.tmp) @@ blobCache
        /\ tmpFiles' = tmpFiles - 1
        /\ Step(t, [Finish(r, "ok") EXCEPT
                        !.bytes = ReadAt(r.tmp, r.offset, r.size)])
        /\ UNCHANGED <<env, hist, mode, mounted, fd, listingCache, osFds, ver, renamed,
                       live, staleBlob, calls>>

\* open: `self.fd += 1` reads self.fd ...
RestOpen(t) ==
    /\ calls < Budget("open")
    /\ CanStart(t, Begin("open", <<>>))
    /\ mode = "remote"
    /\ Step(t, [Begin("open", <<>>) EXCEPT !.pc = "open_store", !.reg = fd])
    /\ calls' = calls + 1
    /\ raced' = (raced \/ InFlight({"open", "release"}) # {})
    /\ UNCHANGED <<env, fetched, failedC, issued, releases, tmpFiles, mode, mounted, fd, listingCache, blobCache, osFds, ver,
                   renamed, live, staleBlob>>

\* ... and writes it back incremented
RestOpenStore(t) ==
    /\ th[t].pc = "open_store"
    /\ fd' = th[t].reg + 1
    /\ Step(t, [th[t] EXCEPT !.pc = "open_return"])
    /\ UNCHANGED <<env, hist, tmpFiles, mode, mounted, listingCache, blobCache, osFds, ver, renamed,
                   live, staleBlob, calls>>

\* return self.fd: the kernel now holds the handle of a new session
RestOpenReturn(t) ==
    /\ th[t].pc = "open_return"
    /\ Step(t, [Finish(th[t], "ok") EXCEPT !.handle = fd])
    /\ live' = live (+) SetToBag({fd})
    /\ issued' = Append(issued, fd)
    /\ UNCHANGED <<env, fetched, failedC, releases, raced, tmpFiles, mode, mounted, fd, listingCache, blobCache, osFds, ver,
                   renamed, staleBlob, calls>>

\* release of a session the kernel holds: `self.fd -= 1` reads self.fd ...
RestRelease(t, fh) ==
    /\ calls < Budget("release")
    /\ CanStart(t, Begin("release", <<>>))
    /\ mode = "remote"
    /\ fh \in BagToSet(live)
    /\ live' = live (-) SetToBag({fh})
    /\ Step(t, [Begin("release", <<>>) EXCEPT !.pc = "release_store",
                                                   !.fh = fh, !.reg = fd])
    /\ calls' = calls + 1
    /\ releases' = releases + 1
    /\ raced' = (raced \/ InFlight({"open", "release"}) # {})
    /\ UNCHANGED <<env, fetched, failedC, issued, tmpFiles, mode, mounted, fd, listingCache, blobCache, osFds, ver,
                   renamed, staleBlob>>

\* A bug that does not decrement the counter.
RestReleaseStoreKeeps(t) ==
    /\ th[t].pc = "release_store"
    /\ fd' = th[t].reg
    /\ Step(t, [th[t] EXCEPT !.pc = "release_return"])
    /\ UNCHANGED <<env, hist, tmpFiles, mode, mounted, listingCache, blobCache,
                   osFds, ver, renamed, live, staleBlob, calls>>

\* ... and writes it back decremented
RestReleaseStore(t) ==
    /\ th[t].pc = "release_store"
    /\ fd' = th[t].reg - 1
    /\ Step(t, [th[t] EXCEPT !.pc = "release_return"])
    /\ UNCHANGED <<env, hist, tmpFiles, mode, mounted, listingCache, blobCache, osFds, ver, renamed,
                   live, staleBlob, calls>>

\* return self.fd
RestReleaseReturn(t) ==
    /\ th[t].pc = "release_return"
    /\ Step(t, [Finish(th[t], "ok") EXCEPT !.handle = fd])
    /\ UNCHANGED <<env, hist, tmpFiles, mode, mounted, fd, listingCache, blobCache, osFds, ver,
                   renamed, live, staleBlob, calls>>

\* destroy at unmount, once the workers have returned: RESTGirderFS clears
\* and closes the cache; LocalGirderFS inherits the no-op of Operations.
Destroy ==
    /\ mounted
    /\ \A t \in Threads : th[t].pc = "idle"
    /\ mounted' = FALSE
    /\ IF mode = "remote"
       THEN listingCache' = << >> /\ blobCache' = << >>
       ELSE UNCHANGED <<listingCache, blobCache>>
    /\ reply' = Idle
    /\ UNCHANGED <<env, hist, tmpFiles, mode, fd, osFds, ver, renamed, th, live, staleBlob, calls>>

----------------------------------------------------------------------------
(* LocalGirderFS.  obj['path'] names the file of the assetstore on the     *)
(* local disk; only file objects carry it (KeyError otherwise).            *)

LocalOpen(t, path) ==
    /\ calls < Budget("open")
    /\ CanStart(t, Begin("open", path))
    /\ mode = "direct"
    /\ path # <<"/">>
    /\ Step(t, Walk(Begin("open", path)))
    /\ calls' = calls + 1
    /\ UNCHANGED <<env, hist, tmpFiles, mode, mounted, fd, listingCache, blobCache, osFds, ver,
                   renamed, live, staleBlob>>

\* return os.open(obj['path'], os.O_RDONLY)
LocalOpenFd(t) ==
    LET r == th[t]
    IN  /\ r.pc = "localopen"
        /\ IF r.typ = "file"
           THEN /\ osFds' = osFds \cup {[fd |-> LowestFree, file |-> r.obj.id]}
                /\ live' = live (+) SetToBag({LowestFree})
                /\ Step(t, [Finish(r, "ok") EXCEPT !.handle = LowestFree])
           ELSE /\ Step(t, Finish(r, "EFAULT"))
                /\ UNCHANGED <<osFds, live>>
        /\ UNCHANGED <<env, hist, tmpFiles, mode, mounted, fd, listingCache, blobCache, ver, renamed,
                       staleBlob, calls>>

\* fh = os.open(obj['path'], os.O_RDONLY); os.lseek(fh, offset, 0);
\* return os.read(fh, size)        (the descriptor is not closed)
LocalRead(t) ==
    LET r == th[t]
    IN  /\ r.pc = "localread"
        /\ IF r.typ = "file"
           THEN /\ osFds' = osFds \cup {[fd |-> LowestFree, file |-> r.obj.id]}
                /\ Step(t, [Finish(r, "ok") EXCEPT
                                !.bytes = ReadAt(Content(r.obj.id, Version(r.obj.id)),
                                                 r.offset, r.size)])
           ELSE /\ Step(t, Finish(r, "EFAULT"))
                /\ UNCHANGED osFds
        /\ UNCHANGED <<env, hist, tmpFiles, mode, mounted, fd, listingCache, blobCache, ver, renamed,
                       live, staleBlob, calls>>

\* return os.close(fh)
LocalRelease(t, fh) ==
    /\ calls < Budget("release")
    /\ CanStart(t, Begin("release", <<>>))
    /\ mode = "direct"
    /\ fh \in BagToSet(live)
    /\ live' = live (-) SetToBag({fh})
    /\ osFds' = {e \in osFds : e.fd # fh}
    /\ Step(t, [Finish(Begin("release", <<>>), "ok") EXCEPT !.fh = fh])
    /\ calls' = calls + 1
    /\ UNCHANGED <<env, hist, tmpFiles, mode, mounted, fd, listingCache, blobCache, ver, renamed,
                   staleBlob>>

----------------------------------------------------------------------------
(* The environment: the remote changes.                                    *)

\* The callbacks see the server only when girder_cli.get or requests.get
\* sends a request: a change of the server is taken when no callback is
\* running, or right before a request of a running callback.
Observable ==
    \/ \A t \in Threads : th[t].pc = "idle"
    \/ \E t \in Threads : th[t].pc \in {"fetch", "download"}

Stale == [t \in Threads |-> IF th[t].pc = "idle" THEN th[t]
                             ELSE [th[t] EXCEPT !.fresh = FALSE]]

\* A new version of file X2 is uploaded: new content, new `updated`.
RemoteUpdate ==
    /\ Changes < MaxChanges
    /\ Observable
    /\ outages = 0
    /\ ver' = ver + 1
    /\ staleBlob' = IF \E k \in DOMAIN blobCache : k[1] = "X2"
                    THEN staleBlob \cup {"X2"} ELSE staleBlob
    /\ th' = Stale
    /\ reply' = Idle
    /\ UNCHANGED <<env, hist, tmpFiles, mode, mounted, fd, listingCache, blobCache, osFds, renamed,
                   live, calls>>

\* The hierarchy changes: file X2 is renamed.
RemoteRename ==
    /\ Changes < MaxChanges
    /\ Observable
    /\ outages = 0
    /\ ~renamed
    /\ renamed' = TRUE
    /\ th' = Stale
    /\ reply' = Idle
    /\ UNCHANGED <<env, hist, tmpFiles, mode, mounted, fd, listingCache, blobCache, osFds, ver,
                   live, staleBlob, calls>>

\* The server becomes unreachable (or answers every request with an error).
\* Outages are explored on a server whose content does not change.
RemoteFail ==
    /\ Changes < MaxChanges
    /\ Observable
    /\ ~renamed /\ ver = 0
    /\ ~down
    /\ down' = TRUE
    /\ outages' = outages + 1
    /\ reply' = Idle
    /\ UNCHANGED <<hist, tmpFiles, mode, mounted, fd, listingCache, blobCache,
                   osFds, ver, renamed, th, live, staleBlob, calls>>

\* The server is back.
RemoteRecover ==
    /\ down
    /\ Observable
    /\ down' = FALSE
    /\ reply' = Idle
    /\ UNCHANGED <<outages, hist, tmpFiles, mode, mounted, fd, listingCache,
                   blobCache, osFds, ver, renamed, th, live, staleBlob, calls>>

----------------------------------------------------------------------------

\* GirderFS.__init__, constructed by main as RESTGirderFS or LocalGirderFS.
Init ==
    /\ mode \in {"remote", "direct"}
    /\ mounted = TRUE
    /\ fd = 0
    /\ listingCache = << >>
    /\ blobCache = << >>
    /\ osFds = {}
    /\ ver = 0
    /\ renamed = FALSE
    /\ th = [t \in Threads |-> Idle]
    /\ reply = Idle
    /\ live = EmptyBag
    /\ staleBlob = {}
    /\ calls = 0
    /\ down = FALSE
    /\ outages = 0
    /\ tmpFiles = 0
    /\ fetched = << >>
    /\ failedC = {}
    /\ issued = << >>
    /\ releases = 0
    /\ raced = FALSE

Next ==
    \/ \E t \in Threads, path \in GetattrPaths : Getattr(t, path)
    \/ \E t \in Threads, path \in ReaddirPaths : Readdir(t, path)
    \/ \E t \in Threads, c \in ReadCalls : Read(t, c.path, c.size, c.offset)
    \/ \E t \in Threads : GetListingLookup(t)
    \/ \E t \in Threads : GetListingFetch(t)
    \/ \E t \in Threads : GetListingStore(t)
    \/ \E t \in Threads : GetListingReturn(t)
    \/ \E t \in Threads : RestBlobGet(t)
    \/ \E t \in Threads : RestDownload(t)
    \/ \E t \in Threads : RestBlobSet(t)
    \/ \E t \in Threads : RestOpen(t)
    \/ \E t \in Threads : RestOpenStore(t)
    \/ \E t \in Threads : RestOpenReturn(t)
    \/ \E t \in Threads, fh \in BagToSet(live) : RestRelease(t, fh)
    \/ \E t \in Threads : RestReleaseStore(t)
    \/ \E t \in Threads : RestReleaseReturn(t)
    \/ \E t \in Threads, path \in OpenPaths : LocalOpen(t, path)
    \/ \E t \in Threads : LocalOpenFd(t)
    \/ \E t \in Threads : LocalRead(t)
    \/ \E t \in Threads, fh \in BagToSet(live) : LocalRelease(t, fh)
    \/ Destroy
    \/ RemoteUpdate
    \/ RemoteRename
    \/ RemoteFail
    \/ RemoteRecover

Spec == Init /\ [][Next]_vars

----------------------------------------------------------------------------
(* Properties.  `reply` is the callback that returned in the last step.    *)

\* The call resolved a path (every callback but getattr/readdir of "/" and
\* the open/release of RESTGirderFS).
Resolves(r) == r.op \in {"getattr", "readdir", "read", "open"} /\ Len(r.path) > 1

\* What the path resolution of section 4.1 of the specification makes of
\* `parts` below container obj_id, read off the cached listings: the last
\* segment names a "folder", a "file" or "both"; a segment matches nothing
\* ("nomatch"); a segment before the last matches a file only
\* ("file-not-last"); or a listing on the way is not cached ("unknown").
RECURSIVE Classify(_, _)
Classify(obj_id, parts) ==
    IF obj_id \notin DOMAIN listingCache THEN "unknown"
    ELSE LET l == listingCache[obj_id]
             F == {i \in 1..Len(l.folders) : l.folders[i].name = parts[1]}
             G == {i \in 1..Len(l.files) : l.files[i].name = parts[1]}
         IN  IF Len(parts) = 1
             THEN IF F # {} /\ G # {} THEN "both"
                  ELSE IF F # {} THEN "folder"
                  ELSE IF G # {} THEN "file"
                  ELSE "nomatch"
             ELSE IF F # {} THEN Classify(l.folders[CHOOSE i \in F : TRUE].id, Tail(parts))
                  ELSE IF G # {} THEN "file-not-last"
                  ELSE "nomatch"

\* C1: in Remote-Read, after any sequence of open and release calls (one
\* after the other), no two sessions that are open at the same time hold the
\* same handle: a handle returned by open is never the handle of a session
\* opened and not yet released.
C1_LiveHandlesUnique ==
    (mode = "remote" /\ ~raced)
    => \A h \in BagToSet(live) : CopiesIn(h, live) <= 1

\* C2: two concurrent reads of the same file version whose blob is not
\* cached trigger at most one download: no two reads are downloading under
\* the same cache key at the same time.
C2_AtMostOneDownload ==
    \A t, u \in Threads :
        (/\ t # u
         /\ th[t].pc \in {"download", "blobset"}
         /\ th[u].pc \in {"download", "blobset"})
        => CacheKey(th[t].obj) # CacheKey(th[u].obj)

\* C3: in Remote-Read, a read that begins after the remote file was updated
\* (new `updated` timestamp, new content) while its blob was cached returns
\* bytes of the new content.
C3_ReadAfterUpdateIsNew ==
    (/\ mode = "remote"
     /\ reply.op = "read" /\ reply.status = "ok" /\ reply.typ = "file"
     /\ reply.fresh
     /\ reply.obj.id \in staleBlob)
    => reply.bytes = ReadAt(Content(reply.obj.id, Version(reply.obj.id)),
                            reply.offset, reply.size)

\* C4: once the blob of (fileId, version) is cached it stays cached until
\* teardown, and a read that looks it up is served from the cached blob
\* without a download.
C4_CachedBlobServed ==
    [][/\ \A k \in DOMAIN blobCache :
              mounted' => k \in DOMAIN blobCache'
       /\ \A t \in Threads :
              (/\ th[t].pc = "blobget"
               /\ th'[t].pc # "blobget"
               /\ CacheKey(th[t].obj) \in DOMAIN blobCache)
              => /\ th'[t].pc = "idle"
                 /\ reply'.op = "read" /\ reply'.status = "ok" /\ reply'.hit
                 /\ reply'.bytes = ReadAt(blobCache[CacheKey(th[t].obj)],
                                          th[t].offset, th[t].size)
                 /\ blobCache' = blobCache]_vars

C4_Witness == reply.op = "read" /\ reply.hit /\ reply.status = "ok"

\* C5: a read of a file of size N at offset k for L bytes returns exactly
\* min(L, N - k) bytes when k <= N and none when k >= N, in both modes, on
\* a blob-cache miss and on a hit.  N is the length of the content served
\* (the cached blob, or the local file), which is the size the listing
\* reports as long as the remote has not changed.
C5_ReadLength ==
    (reply.op = "read" /\ reply.status = "ok" /\ reply.typ = "file")
    => LET N == IF mode = "remote" THEN Len(blobCache[CacheKey(reply.obj)])
                ELSE Len(Content(reply.obj.id, Version(reply.obj.id)))
           k == reply.offset
           L == reply.size
       IN  /\ Len(reply.bytes) = IF k >= N THEN 0 ELSE Min(L, N - k)
           /\ Changes = 0 => N = reply.obj.size

C5_Witness ==
    /\ reply.op = "read" /\ reply.status = "ok" /\ reply.hit
    /\ Len(reply.bytes) > 0 /\ Len(reply.bytes) < reply.size

\* C6: readdir of a container returns ".", ".." and exactly the folder and
\* file names of the container's listing, whatever calls came before.
C6_ReaddirNames ==
    (reply.op = "readdir" /\ reply.status = "ok")
    => LET c == IF reply.path = <<"/">> THEN Root ELSE reply.obj.id
           NamesOf(l) == {l.folders[i].name : i \in 1..Len(l.folders)}
                             \cup {l.files[i].name : i \in 1..Len(l.files)}
           got == {reply.names[i] : i \in 1..Len(reply.names)}
       IN  /\ c \in DOMAIN listingCache
           /\ got = {".", ".."} \cup NamesOf(listingCache[c])
           /\ Len(reply.names) = 2 + Len(listingCache[c].folders)
                                   + Len(listingCache[c].files)
           /\ Changes = 0 => got = {".", ".."} \cup NamesOf(RemoteListing(c))

C6_Witness ==
    /\ reply.op = "readdir" /\ reply.status = "ok"
    /\ reply.path = <<"/", "d">> /\ Len(reply.names) = 3
    /\ calls > 1

\* C7: a path that the cached listings resolve when a call begins (it was
\* resolved before) resolves to the same object and type in that call, also
\* when the remote hierarchy has changed meanwhile, unless a cached listing
\* was replaced; and what a call resolves a path to is what the cached
\* listings resolve it to afterwards.
C7_RepeatedResolution ==
    (Resolves(reply) /\ ~reply.dirty)
    => /\ reply.prev.some
            => /\ reply.resolved
               /\ reply.obj = reply.prev.obj
               /\ reply.typ = reply.prev.typ
       /\ reply.resolved
            => CachedWalk(Root, LStripPath(reply.path))
                   = [kind |-> "return", obj |-> reply.obj, typ |-> reply.typ]

C7_Witness ==
    /\ Resolves(reply) /\ ~reply.dirty /\ reply.prev.some /\ reply.resolved
    /\ reply.path = <<"/", "f">>
    /\ renamed

\* C8: when a segment that is not the last matches no folder but a file of
\* the container reached, the resolution fails with ENOENT.
C8_FileOnlyAsLastSegment ==
    (/\ Resolves(reply) /\ ~reply.dirty
     /\ Classify(Root, LStripPath(reply.path)) = "file-not-last")
    => reply.status = "ENOENT" /\ ~reply.resolved

\* C9: when a segment, at any depth, matches neither a folder nor a file of
\* the container reached so far, the callback raises ENOENT and returns no
\* object, attributes, names or bytes.
C9_MissingSegmentIsENOENT ==
    (/\ Resolves(reply) /\ ~reply.dirty
     /\ Classify(Root, LStripPath(reply.path)) = "nomatch")
    => /\ reply.status = "ENOENT"
       /\ ~reply.resolved /\ reply.obj = NoObj
       /\ reply.attr = NoAttr /\ reply.names = <<>> /\ reply.bytes = <<>>

C9_Witness ==
    /\ reply.op = "read" /\ reply.status = "ENOENT"
    /\ reply.path = <<"/", "x", "g">>

\* C10: when the last segment names both a folder and a file of the
\* container reached, the resolution yields the folder, and getattr reports
\* a directory.
C10_FolderShadowsFile ==
    (/\ Resolves(reply) /\ ~reply.dirty
     /\ Classify(Root, LStripPath(reply.path)) = "both")
    => /\ reply.resolved /\ reply.typ = "folder"
       /\ reply.obj.name = reply.path[Len(reply.path)]
       /\ reply.obj.id \in {"F1", "F2"}
       /\ reply.op = "getattr"
            => /\ reply.status = "ok"
               /\ reply.attr.st_mode = S_IFDIR + 493
               /\ reply.attr.st_nlink = 2

C10_Witness ==
    /\ reply.op = "getattr" /\ reply.status = "ok"
    /\ reply.path = <<"/", "dup">>
    /\ Classify(Root, LStripPath(reply.path)) = "both"

\* The elements of a sequence.
Range(seq) == {seq[i] : i \in 1..Len(seq)}

\* The container whose listing a returned readdir has listed.
Listed(r) == IF r.path = <<"/">> THEN Root ELSE r.obj.id

\* C11 as stated: a callback whose listing fetch has failed ends with an error
\* and leaves no entry for the container in the listing cache.
C11_FailedFetchReportsError ==
    [][\A t \in Threads :
          (th[t].pc = "reget" /\ th[t].fetchFailed /\ th'[t].pc # "reget")
          => /\ th'[t].pc = "idle" /\ reply'.status # "ok"
             /\ th[t].cur \notin DOMAIN listingCache']_vars

\* C11, amended: a listing fetch that fails stores nothing; the callback ends
\* with an error and the container stays out of the cache, unless another
\* callback has stored the container's listing meanwhile, which the callback
\* then uses.  Every cached listing is one the server has answered with, so
\* a readdir of the container after the server has recovered returns the
\* real listing.
C11_FailedFetchNotCached ==
    [][/\ \A t \in Threads :
            /\ (th[t].pc = "fetch" /\ th'[t].pc = "reget")
                => listingCache' = listingCache
            /\ (th[t].pc = "reget" /\ th[t].fetchFailed /\ th'[t].pc # "reget")
                => IF th[t].cur \in DOMAIN listingCache
                   THEN \/ th'[t] = WithListing(th[t], listingCache[th[t].cur])
                        \/ reply' = WithListing(th[t], listingCache[th[t].cur])
                   ELSE /\ th'[t].pc = "idle" /\ reply'.status = "EFAULT"
                        /\ reply'.names = <<>> /\ reply'.bytes = <<>>
                        /\ th[t].cur \notin DOMAIN listingCache'
       /\ \A c \in DOMAIN listingCache' :
              listingCache'[c] \in Range(FetchedOf(c))'
       /\ (/\ reply'.op = "readdir" /\ reply'.status = "ok"
           /\ Listed(reply') \in failedC' /\ outages' > 0)
          => reply'.names = Dirents(RemoteListing(Listed(reply)))']_vars

C11_Witness ==
    /\ reply.op = "readdir" /\ reply.status = "ok" /\ reply.path = <<"/">>
    /\ Root \in failedC /\ ~down
    /\ reply.names = Dirents(RemoteListing(Root))

\* C12: in Remote-Read, a read whose download has failed (transport error or
\* error response) ends with an error, and no blob of a failed attempt is
\* stored: no later read is served such content.
C12_FailedDownloadNotCached ==
    mode = "remote"
    => /\ (reply.op = "read" /\ reply.downloadFailed) => reply.status # "ok"
       /\ \A k \in DOMAIN blobCache : blobCache[k] # ErrorBody
       /\ (reply.op = "read" /\ reply.status = "ok") => reply.bytes # ErrorBody

\* C13: two Remote-Read opens that run at the same time return two different
\* handles, and the counter afterwards reflects both opens.
C13_ConcurrentOpensDistinct ==
    (/\ mode = "remote" /\ raced /\ releases = 0
     /\ InFlight({"open"}) = {} /\ Len(issued) >= 2)
    => /\ \A i, j \in 1..Len(issued) : i # j => issued[i] # issued[j]
       /\ fd = Len(issued)

\* C14: parallel resolutions of the same uncached container leave the cache
\* consistent: a cached listing is always a complete listing the server has
\* answered one of the fetches with, every caller that gets a listing from
\* _get_listing gets such a listing, and at most two fetches of the
\* container are answered.
C14_ParallelFetchConsistent ==
    [][/\ \A c \in DOMAIN listingCache' :
              listingCache'[c] \in Range(FetchedOf(c))'
       /\ \A t \in Threads :
              (/\ th[t].pc \in {"listing", "reget"}
               /\ th'[t].pc \notin {th[t].pc, "fetch"}
               /\ th[t].cur \in DOMAIN listingCache)
              => \E l \in Range(FetchedOf(th[t].cur)) :
                     \/ th'[t] = WithListing(th[t], l)
                     \/ reply' = WithListing(th[t], l)
       /\ \A c \in DOMAIN fetched' : Len(fetched'[c]) <= 2]_vars

C14_Witness ==
    /\ \A t \in Threads : th[t].pc = "idle"
    /\ reply.op = "read" /\ reply.status = "ok"
    /\ Len(FetchedOf(Root)) = 2
    /\ fetched[Root][1] # fetched[Root][2]
    /\ Root \in DOMAIN listingCache

\* C15: Local-Read leaks no descriptors: when every handle returned by open
\* has been released and no callback is running, no descriptor opened by
\* the filesystem is open.
C15_NoDescriptorLeak ==
    (/\ mode = "direct"
     /\ \A t \in Threads : th[t].pc = "idle"
     /\ live = EmptyBag)
    => osFds = {}

\* C16: over any sequence of Remote-Read open and release calls (one after
\* the other), each handle returned by open is strictly greater than every
\* handle returned by an earlier open.
C16_HandlesIncrease ==
    (mode = "remote" /\ ~raced)
    => \A i, j \in 1..Len(issued) : i < j => issued[i] < issued[j]

\* C17: once a listing is stored for a container, the stored value stays the
\* same until the cache is cleared at teardown: no step replaces it.
C17_CachedListingImmutable ==
    [][\A c \in DOMAIN listingCache :
          mounted' => /\ c \in DOMAIN listingCache'
                      /\ listingCache'[c] = listingCache[c]]_vars

\* C18: every temporary file created by a Remote-Read read is removed by the
\* time the read returns, on success and on failure: the only temporary
\* files on disk are those of the reads between the download and the store.
C18_NoTempFileLeft ==
    tmpFiles = Cardinality({t \in Threads : th[t].pc = "blobset"})

\* C19: getattr of an object whose `created` or `updated` is no timestamp
\* fails with a not-found or I/O error raised by the handler, not with an
\* exception the handler does not handle, and returns no attributes.
C19_MalformedTimestampIsError ==
    (reply.op = "getattr" /\ reply.resolved /\ ~TimesParse(reply.obj))
    => reply.status \in {"ENOENT", "EIO"} /\ reply.attr = NoAttr

\* C20: in Remote-Read, after any sequence of open and release calls (one
\* after the other, every release that of an open session), the counter is
\* the number of opens minus the number of releases, which is the number of
\* open sessions; it is never negative and every handle returned by open is
\* at least 1; getattr, readdir and read leave the counter unchanged.
C20_CounterCountsSessions ==
    [][/\ (mode' = "remote" /\ ~raced')
          => /\ fd' >= 0
             /\ \A i \in 1..Len(issued') : issued'[i] >= 1
             /\ InFlight({"open", "release"})' = {}
                  => /\ fd' = Len(issued') - releases'
                     /\ fd' = BagCardinality(live')
       /\ \A t \in Threads :
              (/\ th'[t] # th[t]
               /\ \/ th[t].op \in {"getattr", "readdir", "read"}
                  \/ th'[t].op \in {"getattr", "readdir", "read"}
                  \/ reply'.op \in {"getattr", "readdir", "read"})
              => fd' = fd]_vars

C20_Witness ==
    /\ mode = "remote" /\ ~raced
    /\ reply.op = "read" /\ reply.status = "ok"
    /\ Len(issued) = 1 /\ releases = 1 /\ fd = 0

====
